---- MODULE Spec2Model ----
(***************************************************************************)
(* A model of janggu's genomic indexer (janggu/data/genomic_indexer.py)    *)
(* and genomic array stores (janggu/data/genomicarray.py).                 *)
(*                                                                         *)
(* SpecIdx : the GenomicIndexer: create_from_file, __len__, __getitem__,   *)
(*           idx_by_chrom.                                                 *)
(* Spec    : the life cycle of the stores (HDF5GenomicArray,               *)
(*           NPGenomicArray): construction, the loader callback, the cache *)
(*           on disk, reads and writes.                                    *)
(* SpecRW  : one store over two chromosomes, for the coordinate            *)
(*           translation of __setitem__ and __getitem__.                   *)
(* SpecTwo : two stores alive at a time under one tag list.                *)
(*                                                                         *)
(* Python's // and % on integers are floor division and the non-negative   *)
(* remainder for a positive divisor, which is what \div and % are here.    *)
(***************************************************************************)
EXTENDS Integers, Sequences, FiniteSets, TLC

(***************************************************************************)
(* Bounds of the model.                                                    *)
(***************************************************************************)
\* the most regions a region file holds
MaxRegions == 2
\* the largest region length (end - start)
MaxLen == 4
\* the largest binsize and stepsize
MaxBin == 4
\* the largest flank
MaxFlank == 1

Chroms == {"chr1", "chr2"}
Strands == {"+", "-"}

\* the most store objects alive at a time
MaxStores == 2
\* the length of the chromosome of the stores of Spec
LifeChromLen == 2
\* the lengths of the two chromosomes of the store of SpecRW
RWChromLen1 == 3
RWChromLen2 == 1
\* the largest resolution of the store of SpecRW
RWMaxRes == 2
\* the largest value written
MaxValue == 1
\* the most writes to the store of SpecRW
RWMaxWrites == 2

\* order is supported up to 4
MaxOrder == 4

VARIABLES
    \* ---- indexer ----
    regions,             \* the region records create_from_file was given
    fixed_size_batches,  \* its fixed_size_batches argument
    gind,                \* the GenomicIndexer object
    ires,                \* the outcome of the last indexer operation
    \* ---- stores ----
    dirs,                \* the cache directories that exist
    h5file,              \* per cache location, its storage.h5
    npzfile,             \* per cache location, its storage.npz
    origin,              \* per storage.h5, the metadata of the store whose
                         \* construction built it (history)
    stores,              \* the store objects, per slot (a variable of the caller)
    ev,                  \* the last store operation and its outcome
    nwrites              \* the writes made so far (counted under SpecRW)

idxvars == <<regions, fixed_size_batches, gind, ires>>
storevars == <<dirs, h5file, npzfile, origin, stores, ev>>
vars == <<regions, fixed_size_batches, gind, ires,
          dirs, h5file, npzfile, origin, stores, ev, nwrites>>

(***************************************************************************)
(* Python lists.                                                           *)
(***************************************************************************)
\* [x] * n : the empty list when n <= 0
Rep(x, n) == [k \in 1..n |-> x]
\* list(range(n)) : the empty list when n <= 0
Range(n) == [k \in 1..n |-> k - 1]
\* whether lst[i] is defined for the integer i (negative i counts from the end)
PyInRange(lst, i) == -Len(lst) <= i /\ i < Len(lst)
\* lst[i] for a list and an integer in range
PyIndex(lst, i) == IF i >= 0 THEN lst[i + 1] ELSE lst[Len(lst) + i + 1]

(***************************************************************************)
(* GenomicIndexer                                                          *)
(***************************************************************************)
GenomicInterval(chrom, start, end, strand) ==
    [chrom |-> chrom, start |-> start, end |-> end, strand |-> strand]

NoInterval == GenomicInterval("", 0, 0, ".")

\* GenomicIndexer.__init__ with the empty table create_from_file starts from
NewIndexer(binsize, stepsize, flank) ==
    [built |-> TRUE, binsize |-> binsize, stepsize |-> stepsize, flank |-> flank,
     chrs |-> <<>>, offsets |-> <<>>, inregionidx |-> <<>>, strand |-> <<>>,
     rel_end |-> <<>>]

NoIndexer == [NewIndexer(0, 0, 0) EXCEPT !.built = FALSE]

\* the setters of binsize, stepsize and flank accept the values
ValidPolicy(binsize, stepsize, flank) ==
    binsize > 0 /\ stepsize > 0 /\ flank >= 0

\* val of the loop body
RegionVal(reg, binsize, stepsize) ==
    IF stepsize <= binsize
    THEN reg.end - reg.start - binsize + stepsize
    ELSE reg.end - reg.start

\* HasRemainder testing the region's length instead of val
HasRemainder_onLength(reg, binsize, stepsize, fixed) ==
    ~fixed /\ (reg.end - reg.start) % stepsize > 0

\* whether the loop body appends the variable length fragment
HasRemainder(reg, binsize, stepsize, fixed) ==
    ~fixed /\ RegionVal(reg, binsize, stepsize) % stepsize > 0

\* RemainderLen measured from the region's length instead of val
RemainderLen_onLength(reg, binsize, stepsize) ==
    (reg.end - reg.start)
        - (RegionVal(reg, binsize, stepsize) \div stepsize) * stepsize

\* rel_end of the variable length fragment
RemainderLen(reg, binsize, stepsize) ==
    LET val == RegionVal(reg, binsize, stepsize)
    IN  val - (val \div stepsize) * stepsize

\* AppendRegion recording the stepsize as rel_end of the full bins
AppendRegion_relStep(g, reg, fixed) ==
    LET val == RegionVal(reg, g.binsize, g.stepsize)
        reglen == val \div g.stepsize
        full == [g EXCEPT
                   !.chrs = @ \o Rep(reg.chrom, reglen),
                   !.offsets = @ \o Rep(reg.start, reglen),
                   !.rel_end = @ \o Rep(g.stepsize, reglen),
                   !.strand = @ \o Rep(reg.strand, reglen),
                   !.inregionidx = @ \o Range(reglen)]
    IN  IF HasRemainder(reg, g.binsize, g.stepsize, fixed)
        THEN [full EXCEPT
                !.chrs = Append(@, reg.chrom),
                !.offsets = Append(@, reg.start),
                !.rel_end = Append(@, RemainderLen(reg, g.binsize, g.stepsize)),
                !.strand = Append(@, reg.strand),
                !.inregionidx = Append(@, reglen)]
        ELSE full

\* one pass of the loop body over reg
AppendRegion(g, reg, fixed) ==
    LET val == RegionVal(reg, g.binsize, g.stepsize)
        reglen == val \div g.stepsize
        full == [g EXCEPT
                   !.chrs = @ \o Rep(reg.chrom, reglen),
                   !.offsets = @ \o Rep(reg.start, reglen),
                   !.rel_end = @ \o Rep(g.binsize, reglen),
                   !.strand = @ \o Rep(reg.strand, reglen),
                   !.inregionidx = @ \o Range(reglen)]
    IN  IF HasRemainder(reg, g.binsize, g.stepsize, fixed)
        THEN [full EXCEPT
                !.chrs = Append(@, reg.chrom),
                !.offsets = Append(@, reg.start),
                !.rel_end = Append(@, RemainderLen(reg, g.binsize, g.stepsize)),
                !.strand = Append(@, reg.strand),
                !.inregionidx = Append(@, reglen)]
        ELSE full

RECURSIVE LoopRegions(_, _, _)
LoopRegions(g, regs, fixed) ==
    IF regs = <<>> THEN g
    ELSE LoopRegions(AppendRegion(g, Head(regs), fixed), Tail(regs), fixed)

\* the indexer create_from_file returns for a valid policy
create_from_file(regs, binsize, stepsize, flank, fixed) ==
    LoopRegions(NewIndexer(binsize, stepsize, flank), regs, fixed)

\* __len__
IndexerLen(g) == Len(g.chrs)

\* __getitem__ accepts the index: an int for which the lists are defined
GetItemOk(g, index) == index.isint /\ PyInRange(g.chrs, index.val)

\* __getitem__ widening the interval by the flank at its start only
getitem_flankStartOnly(g, i) ==
    LET start == PyIndex(g.offsets, i) + PyIndex(g.inregionidx, i) * g.stepsize
        val == PyIndex(g.rel_end, i)
        end == start + (IF val > 0 THEN val ELSE 1)
    IN  GenomicInterval(PyIndex(g.chrs, i), start - g.flank, end,
                        PyIndex(g.strand, i))

\* __getitem__ for an accepted index
getitem(g, i) ==
    LET start == PyIndex(g.offsets, i) + PyIndex(g.inregionidx, i) * g.stepsize
        val == PyIndex(g.rel_end, i)
        end == start + (IF val > 0 THEN val ELSE 1)
    IN  GenomicInterval(PyIndex(g.chrs, i), start - g.flank, end + g.flank,
                        PyIndex(g.strand, i))

\* np.where(np.asarray(self.chrs) == name)[0]
WhereChrom(g, name) == {i \in 0..(IndexerLen(g) - 1) : g.chrs[i + 1] = name}

\* idx_by_chrom applying exclude only when include is given
idx_by_chrom_excludeNested(g, include, exclude) ==
    IF include = {} THEN 0..(IndexerLen(g) - 1)
    ELSE UNION {WhereChrom(g, inc) : inc \in include}
            \ UNION {WhereChrom(g, exc) : exc \in exclude}

\* idx_by_chrom, the returned list as a set
idx_by_chrom(g, include, exclude) ==
    LET start == IF include = {} THEN 0..(IndexerLen(g) - 1)
                 ELSE UNION {WhereChrom(g, inc) : inc \in include}
    IN  start \ UNION {WhereChrom(g, exc) : exc \in exclude}

(***************************************************************************)
(* The indexer's operations.                                               *)
(***************************************************************************)
\* where the regions of a region file lie: chromosome, start and strand
RegionSites ==
    {[chrom |-> "chr1", start |-> 0, strand |-> "+"],
     [chrom |-> "chr2", start |-> 3, strand |-> "-"]}

\* the region records a region file may hold
Regions ==
    {GenomicInterval(s.chrom, s.start, s.start + l, s.strand) :
        s \in RegionSites, l \in 0..MaxLen}

RegionLists ==
    UNION {[1..n -> Regions] : n \in 0..MaxRegions}

\* the chromosome names idx_by_chrom is asked about
QueryChroms == Chroms

Index(isint, val) == [isint |-> isint, val |-> val]

NoResult ==
    [op |-> "none", err |-> "", index |-> Index(TRUE, 0), iv |-> NoInterval,
     include |-> {}, exclude |-> {}, idxs |-> {}]

InitIdx ==
    /\ regions = <<>>
    /\ fixed_size_batches = TRUE
    /\ gind = NoIndexer
    /\ ires = NoResult

CreateFromFile ==
    /\ ~gind.built
    /\ ires.op = "none"
    /\ \E rl \in RegionLists, binsize \in 0..MaxBin, stepsize \in 0..MaxBin,
          flank \in (-1)..MaxFlank, fixed \in BOOLEAN :
         IF ValidPolicy(binsize, stepsize, flank)
         THEN /\ regions' = rl
              /\ fixed_size_batches' = fixed
              /\ gind' = create_from_file(regions', binsize, stepsize, flank, fixed)
              /\ ires' = [NoResult EXCEPT !.op = "create"]
         ELSE /\ ires' = [NoResult EXCEPT !.op = "create", !.err = "ValueError"]
              /\ UNCHANGED <<regions, fixed_size_batches, gind>>
    /\ UNCHANGED <<storevars, nwrites>>

\* The indexer is immutable once built and a query changes nothing but its
\* own result, so every query is taken from the state the build left.
GetItem ==
    /\ gind.built
    /\ ires.op = "create"
    /\ \E index \in {Index(TRUE, v) : v \in (-IndexerLen(gind) - 1)..(IndexerLen(gind) + 1)}
                    \cup {Index(FALSE, 0)} :
         ires' = IF GetItemOk(gind, index)
                 THEN [NoResult EXCEPT !.op = "get", !.index = index,
                                       !.iv = getitem(gind, index.val)]
                 ELSE [NoResult EXCEPT !.op = "get", !.index = index,
                                       !.err = "IndexError"]
    /\ UNCHANGED <<regions, fixed_size_batches, gind, storevars, nwrites>>

IdxByChrom ==
    /\ gind.built
    /\ ires.op = "create"
    /\ \E include \in SUBSET QueryChroms, exclude \in SUBSET QueryChroms :
         ires' = [NoResult EXCEPT !.op = "idx", !.include = include,
                                  !.exclude = exclude,
                                  !.idxs = idx_by_chrom(gind, include, exclude)]
    /\ UNCHANGED <<regions, fixed_size_batches, gind, storevars, nwrites>>

NextIdx == CreateFromFile \/ GetItem \/ IdxByChrom

(***************************************************************************)
(* GenomicArray: the store objects, their handles and the cache on disk.   *)
(***************************************************************************)
Slots == 1..MaxStores

Min(a, b) == IF a < b THEN a ELSE b
Max0(n) == IF n > 0 THEN n ELSE 0

\* a condition label: a str, or the bytes numpy.string_ makes of it
Str(x) == [bytes |-> FALSE, s |-> x]
np_string(l) == [l EXCEPT !.bytes = TRUE]
np_strings(labels) == [k \in 1..Len(labels) |-> np_string(labels[k])]

\* the conditions argument: None, or a list of labels
CondNone == [given |-> FALSE, labels |-> <<>>]
CondList(labels) == [given |-> TRUE, labels |-> labels]

\* the datatags of every store of the model
DataTags == <<"tag">>

\* datatags + ['stranded'] if stranded; _get_output_data_location maps tag
\* lists to directories one to one
Location(datatags, stranded) ==
    IF stranded THEN datatags \o <<"stranded">> ELSE datatags

Locations == {Location(DataTags, st) : st \in BOOLEAN}

\* a dict of chromosome arrays with no chromosome
NoData == [c \in {} |-> <<>>]

\* ZeroArray, had the arrays been allocated with ones
ZeroArray_ones(n, nstrand, ncond) ==
    [p \in 1..n |-> [st \in 1..nstrand |-> [k \in 1..ncond |-> 1]]]

\* numpy.zeros(shape=(n, nstrand, ncond))
ZeroArray(n, nstrand, ncond) ==
    [p \in 1..n |-> [st \in 1..nstrand |-> [k \in 1..ncond |-> 0]]]

\* one zero array of shape (chroms[chrom] + 1, 2 if stranded else 1,
\* len(condition)) per chromosome
ZeroData(chroms, stranded, ncond) ==
    [c \in DOMAIN chroms |->
        ZeroArray(chroms[c] + 1, IF stranded THEN 2 ELSE 1, ncond)]

\* a cache file: storage.h5 with its attrs, storage.npz with its entries
NoFile ==
    [exists |-> FALSE, conditions |-> <<>>, order |-> 0, resolution |-> 0,
     data |-> NoData]

CacheFile(conditions, order, resolution, data) ==
    [exists |-> TRUE, conditions |-> conditions, order |-> order,
     resolution |-> resolution, data |-> data]

\* origin[loc]: condition, order and resolution of the store that the last
\* building construction to return at loc returned; current is FALSE once a
\* later construction has begun to rewrite the file
Metadata(conditions, order, resolution) ==
    [set |-> TRUE, current |-> TRUE, conditions |-> conditions, order |-> order,
     resolution |-> resolution]

NoMetadata ==
    [set |-> FALSE, current |-> FALSE, conditions |-> <<>>, order |-> 0,
     resolution |-> 0]

\* the arguments of create_genomic_array and of the constructors
NoArgs ==
    [storage |-> "", chroms |-> NoData, stranded |-> FALSE,
     conditions |-> CondNone, datatags |-> <<>>, resolution |-> 0, order |-> 0,
     cache |-> FALSE, overwrite |-> FALSE, loader |-> FALSE]

\* the frame of a constructor call: its arguments, what os.path.exists said
\* of the cache file, whether it took the building branch, and how often it
\* has invoked the loader
NoCall == [args |-> NoArgs, exists |-> FALSE, built |-> FALSE, loaderCalls |-> 0]

Call(a, exists, built, loaderCalls) ==
    [args |-> a, exists |-> exists, built |-> built, loaderCalls |-> loaderCalls]

\* a store object.  pc: "none" (the slot is empty), "loading" (its constructor
\* is inside the loader callback), "ready" (its constructor has returned),
\* "failed" (its constructor has raised).  data is the dict of arrays of an
\* NPGenomicArray; the datasets of an HDF5GenomicArray are those of the file
\* at loc, reached through its write handle (wopen) or read-only handle
\* (ropen).  A slot is a variable of the caller.  A constructor call that
\* gets as far as making its object takes the slot: the object the slot held
\* is dropped before the call, and its handle with it.
NoStore ==
    [pc |-> "none", kind |-> "", stranded |-> FALSE, condition |-> <<>>,
     order |-> 0, resolution |-> 0, loc |-> <<>>, data |-> NoData,
     wopen |-> FALSE, ropen |-> FALSE, call |-> NoCall]

\* the arrays behind self.handle
HandleData(st) == IF st.kind = "hdf5" THEN h5file[st.loc].data ELSE st.data

\* InitError, had the constructor not refused an order above 4
InitError_noUpperOrder(a) ==
    IF a.order <= 0 THEN "ValueError"
    ELSE IF a.resolution <= 0 THEN "ValueError"
    ELSE ""

\* GenomicArray.__init__: the exception it raises, "" if none
InitError(a) ==
    IF a.order <= 0 THEN "ValueError"
    ELSE IF a.order > MaxOrder THEN "Exception"
    ELSE IF a.resolution <= 0 THEN "ValueError"
    ELSE ""

\* self.condition as GenomicArray.__init__ sets it
InitCondition(a) ==
    IF a.conditions.given THEN a.conditions.labels ELSE <<Str("sample")>>

(***************************************************************************)
(* __setitem__ and __getitem__                                             *)
(***************************************************************************)
\* the index of __setitem__ and __getitem__: a GenomicInterval ("interval"),
\* or a pair of a GenomicInterval and a condition ("pair"); the condition is
\* an int or not
Key(form, iv, cond) == [form |-> form, iv |-> iv, cond |-> cond]

\* a bound of a slice over n rows, as Python clips it
SliceBound(i, n) == IF i < 0 THEN Max0(i + n) ELSE Min(i, n)

\* the rows (0-based) of arr[start:end]
SliceRows(n, start, end) ==
    {p \in 0..(n - 1) : SliceBound(start, n) <= p /\ p < SliceBound(end, n)}

\* the strand axis, had it followed the strand alone
StrandAxis_byStrandOnly(stranded, strand) == IF strand = "-" THEN 1 ELSE 0

\* 1 if self.stranded and strand == '-' else 0
StrandAxis(stranded, strand) == IF stranded /\ strand = "-" THEN 1 ELSE 0

\* the exception __setitem__ raises on these arrays, "" if none
SetItemError(data, stranded, key) ==
    IF key.form # "pair" THEN "TypeError"
    ELSE IF ~key.cond.isint THEN "IndexError"
    ELSE IF key.iv.chrom \notin DOMAIN data THEN "KeyError"
    ELSE LET arr == data[key.iv.chrom]
             nstrand == Len(arr[1])
             ncond == Len(arr[1][1])
         IN  IF StrandAxis(stranded, key.iv.strand) >= nstrand
                \/ ~(-ncond <= key.cond.val /\ key.cond.val < ncond)
             THEN "IndexError"
             ELSE ""

\* setitem, had it sliced with the interval's coordinates undivided
setitem_rawCoordinates(data, resolution, stranded, key, value) ==
    LET chrom == key.iv.chrom
        arr == data[chrom]
        axis == StrandAxis(stranded, key.iv.strand)
        ncond == Len(arr[1][1])
        cond == IF key.cond.val < 0 THEN key.cond.val + ncond ELSE key.cond.val
        rows == SliceRows(Len(arr), key.iv.start, key.iv.end)
    IN  [data EXCEPT ![chrom] =
            [p \in 1..Len(arr) |->
                IF p - 1 \in rows
                THEN [arr[p] EXCEPT ![axis + 1][cond + 1] = value]
                ELSE arr[p]]]

\* the arrays after self.handle[chrom][start:end, strand axis, condition] = value
setitem(data, resolution, stranded, key, value) ==
    LET chrom == key.iv.chrom
        arr == data[chrom]
        start == key.iv.start \div resolution
        end == key.iv.end \div resolution
        axis == StrandAxis(stranded, key.iv.strand)
        ncond == Len(arr[1][1])
        cond == IF key.cond.val < 0 THEN key.cond.val + ncond ELSE key.cond.val
        rows == SliceRows(Len(arr), start, end)
    IN  [data EXCEPT ![chrom] =
            [p \in 1..Len(arr) |->
                IF p - 1 \in rows
                THEN [arr[p] EXCEPT ![axis + 1][cond + 1] = value]
                ELSE arr[p]]]

\* the exception of __getitem__, had it taken the interval of a pair
GetItemError_acceptsPair(data, key) ==
    IF key.iv.chrom \notin DOMAIN data THEN "KeyError" ELSE ""

\* the exception __getitem__ raises on these arrays, "" if none
GetItemError(data, key) ==
    IF key.form # "interval" THEN "IndexError"
    ELSE IF key.iv.chrom \notin DOMAIN data THEN "KeyError"
    ELSE ""

\* self.handle[chrom][start:end]: the rows, each with all strands and conditions
getitem_array(data, resolution, key) ==
    LET arr == data[key.iv.chrom]
        start == key.iv.start \div resolution
        end == key.iv.end \div resolution
        lo == SliceBound(start, Len(arr))
        hi == SliceBound(end, Len(arr))
    IN  SubSeq(arr, lo + 1, hi)

(***************************************************************************)
(* The store operations.  A constructor that invokes the loader stops      *)
(* inside the callback (pc = "loading"): the loader writes to the store    *)
(* and then returns or raises.  Every other constructor call runs to its   *)
(* end in one step.  All of it is synchronous: while one constructor is    *)
(* inside the loader nothing else runs.                                    *)
(***************************************************************************)
NoKey == Key("interval", NoInterval, Index(TRUE, 0))

NoWrite == [set |-> FALSE, slot |-> 0, key |-> NoKey, value |-> 0]

\* op: "construct" (a constructor call that ended or entered the loader),
\* "loader_return", "loader_raise", "loader_write", "loader_read", "write",
\* "read".  call is the frame of the constructor call the operation belongs
\* to, out what __getitem__ returned, wrote the last __setitem__ that
\* returned since the store's constructor was called.
NoEvent ==
    [op |-> "none", slot |-> 0, err |-> "", call |-> NoCall, key |-> NoKey,
     value |-> 0, out |-> <<>>, wrote |-> NoWrite]

Event(op, slot, err, call) ==
    [NoEvent EXCEPT !.op = op, !.slot = slot, !.err = err, !.call = call]

InitStores ==
    /\ dirs = {}
    /\ h5file = [l \in Locations |-> NoFile]
    /\ npzfile = [l \in Locations |-> NoFile]
    /\ origin = [l \in Locations |-> NoMetadata]
    /\ stores = [s \in Slots |-> NoStore]
    /\ ev = NoEvent

Idle == \A s \in Slots : stores[s].pc # "loading"

\* a constructor call raises before it has touched the disk: nothing is
\* returned, so the caller's variable keeps what it held
Raise(s, a, err) ==
    /\ ev' = Event("construct", s, err, Call(a, FALSE, FALSE, 0))
    /\ UNCHANGED <<dirs, h5file, npzfile, origin, stores>>

\* Reopened, had the constructor kept its arguments instead of the attrs
Reopened_keepArguments(st, file) ==
    [st EXCEPT !.pc = "ready", !.wopen = FALSE, !.ropen = TRUE, !.call = NoCall]

\* Reopened, had the constructor not closed the write handle
Reopened_writeHandleLeftOpen(st, file) ==
    [st EXCEPT !.pc = "ready", !.ropen = TRUE,
               !.condition = file.conditions, !.order = file.order,
               !.resolution = file.resolution, !.call = NoCall]

\* HDF5GenomicArray.__init__ from the reopening of the file on: the read-only
\* handle, and condition, order and resolution from the file's attrs
Reopened(st, file) ==
    [st EXCEPT !.pc = "ready", !.wopen = FALSE, !.ropen = TRUE,
               !.condition = file.conditions, !.order = file.order,
               !.resolution = file.resolution, !.call = NoCall]

\* not os.path.exists(.../storage.h5) or overwrite
HDF5Builds(exists, a) == ~exists \/ a.overwrite

\* NPBuilds, had it built only for a missing archive or on overwrite
NPBuilds_missingCacheOnly(exists, a) == (a.cache /\ ~exists) \/ a.overwrite

\* cache and not os.path.exists(.../storage.npz) or overwrite or not cache
NPBuilds(exists, a) == (a.cache /\ ~exists) \/ a.overwrite \/ ~a.cache

\* another store object holds a handle of the file at loc
OpenElsewhere(s, loc) ==
    \E t \in Slots \ {s} :
        /\ stores[t].kind = "hdf5" /\ stores[t].loc = loc
        /\ stores[t].wopen \/ stores[t].ropen

\* another store object holds the write handle of the file at loc
OpenForWriteElsewhere(s, loc) ==
    \E t \in Slots \ {s} :
        stores[t].kind = "hdf5" /\ stores[t].loc = loc /\ stores[t].wopen

\* HDF5GenomicArray.__init__ up to the loader call, or to its end when it
\* does not invoke the loader.  h5py.File on a file that another object of
\* the process holds open (to create it, or to read it while it is held for
\* writing) is refused or let through, as the HDF5 library in use decides:
\* both outcomes are taken.
HDF5Init(s, a) ==
    LET loc == Location(a.datatags, a.stranded)
        exists == h5file[loc].exists
        self == [NoStore EXCEPT !.kind = "hdf5", !.stranded = a.stranded,
                                !.condition = InitCondition(a),
                                !.order = a.order,
                                !.resolution = a.resolution, !.loc = loc]
        created == CacheFile(np_strings(self.condition), self.order,
                             self.resolution,
                             ZeroData(a.chroms, a.stranded, Len(self.condition)))
    IN  IF InitError(a) # "" THEN Raise(s, a, InitError(a))
        ELSE IF ~a.cache THEN Raise(s, a, "ValueError")
        ELSE \/ /\ IF HDF5Builds(exists, a) THEN OpenElsewhere(s, loc)
                   ELSE OpenForWriteElsewhere(s, loc)
                /\ dirs' = dirs \cup {loc}
                /\ ev' = Event("construct", s, "OSError", Call(a, exists, FALSE, 0))
                /\ UNCHANGED <<h5file, npzfile, origin, stores>>
             \/ /\ dirs' = dirs \cup {loc}
                /\ UNCHANGED npzfile
                /\ IF HDF5Builds(exists, a)
                   THEN /\ h5file' = [h5file EXCEPT ![loc] = created]
                        /\ IF a.loader
                           THEN /\ stores' = [stores EXCEPT ![s] =
                                       [self EXCEPT !.pc = "loading", !.wopen = TRUE,
                                                    !.call = Call(a, exists, TRUE, 1)]]
                                /\ origin' = [origin EXCEPT ![loc].current = FALSE]
                                /\ ev' = Event("construct", s, "", Call(a, exists, TRUE, 1))
                           ELSE /\ stores' = [stores EXCEPT ![s] = Reopened(self, created)]
                                /\ origin' = [origin EXCEPT ![loc] =
                                       Metadata(stores'[s].condition, stores'[s].order,
                                                stores'[s].resolution)]
                                /\ ev' = Event("construct", s, "", Call(a, exists, TRUE, 0))
                   ELSE /\ stores' = [stores EXCEPT ![s] = Reopened(self, h5file[loc])]
                        /\ ev' = Event("construct", s, "", Call(a, exists, FALSE, 0))
                        /\ UNCHANGED <<h5file, origin>>

\* HDF5GenomicArray.__init__ from the return of the loader on
HDF5Finish(s) ==
    LET st == stores[s]
    IN  /\ stores' = [stores EXCEPT ![s] = Reopened(st, h5file[st.loc])]
        /\ origin' = [origin EXCEPT ![st.loc] =
               Metadata(stores'[s].condition, stores'[s].order,
                        stores'[s].resolution)]
        /\ ev' = [Event("loader_return", s, "", st.call) EXCEPT !.wrote = ev.wrote]
        /\ UNCHANGED <<dirs, h5file, npzfile>>

\* NPFinish, had it returned the arrays of the call instead of the archive's
NPFinish_freshData(s, self, data, call) ==
    LET a == call.args
        loc == self.loc
        saved == CacheFile(np_strings(self.condition), a.order, a.resolution, data)
        archive == IF call.built /\ a.cache THEN saved ELSE npzfile[loc]
    IN  /\ npzfile' = [npzfile EXCEPT ![loc] = archive]
        /\ stores' = [stores EXCEPT ![s] =
               [self EXCEPT !.pc = "ready", !.data = saved.data,
                            !.condition = saved.conditions,
                            !.resolution = saved.resolution,
                            !.order = saved.order, !.call = NoCall]]
        /\ UNCHANGED <<h5file, origin>>

\* NPFinish, had it saved the archive whether or not caching is enabled
NPFinish_alwaysSaves(s, self, data, call) ==
    LET a == call.args
        loc == self.loc
        saved == CacheFile(np_strings(self.condition), a.order, a.resolution, data)
        archive == IF call.built THEN saved ELSE npzfile[loc]
    IN  /\ npzfile' = [npzfile EXCEPT ![loc] = archive]
        /\ stores' = [stores EXCEPT ![s] =
               [self EXCEPT !.pc = "ready", !.data = saved.data,
                            !.condition = saved.conditions,
                            !.resolution = saved.resolution,
                            !.order = saved.order, !.call = NoCall]]
        /\ UNCHANGED <<h5file, origin>>

\* NPGenomicArray.__init__ after the loader call, or after the branch that
\* builds was skipped: self is the object so far, data the local dict, call
\* the frame
NPFinish(s, self, data, call) ==
    LET a == call.args
        loc == self.loc
        saved == CacheFile(np_strings(self.condition), a.order, a.resolution, data)
        archive == IF call.built /\ a.cache THEN saved ELSE npzfile[loc]
        loaded == IF a.cache THEN archive ELSE saved
    IN  /\ npzfile' = [npzfile EXCEPT ![loc] = archive]
        /\ stores' = [stores EXCEPT ![s] =
               [self EXCEPT !.pc = "ready", !.data = loaded.data,
                            !.condition = loaded.conditions,
                            !.resolution = loaded.resolution,
                            !.order = loaded.order, !.call = NoCall]]
        /\ UNCHANGED <<h5file, origin>>

\* NPGenomicArray.__init__ up to the loader call, or to its end when it does
\* not invoke the loader
NPInit(s, a) ==
    LET loc == Location(a.datatags, a.stranded)
        exists == npzfile[loc].exists
        build == NPBuilds(exists, a)
        self == [NoStore EXCEPT !.kind = "ndarray", !.stranded = a.stranded,
                                !.condition = InitCondition(a),
                                !.order = a.order,
                                !.resolution = a.resolution, !.loc = loc]
        data == ZeroData(a.chroms, a.stranded, Len(self.condition))
    IN  IF InitError(a) # "" THEN Raise(s, a, InitError(a))
        ELSE /\ dirs' = IF a.cache THEN dirs \cup {loc} ELSE dirs
             /\ IF build /\ a.loader
                THEN /\ stores' = [stores EXCEPT ![s] =
                            [self EXCEPT !.pc = "loading", !.data = data,
                                         !.call = Call(a, exists, TRUE, 1)]]
                     /\ ev' = Event("construct", s, "", Call(a, exists, TRUE, 1))
                     /\ UNCHANGED <<h5file, npzfile, origin>>
                ELSE /\ NPFinish(s, self, data, Call(a, exists, build, 0))
                     /\ ev' = Event("construct", s, "", Call(a, exists, build, 0))

\* create_genomic_array, had it taken every other storage for 'ndarray'
create_genomic_array_defaultNdarray(s, a) ==
    /\ Idle
    /\ IF a.storage = "hdf5" THEN HDF5Init(s, a) ELSE NPInit(s, a)

\* create_genomic_array
create_genomic_array(s, a) ==
    /\ Idle
    /\ IF a.storage = "hdf5" THEN HDF5Init(s, a)
       ELSE IF a.storage = "ndarray" THEN NPInit(s, a)
       ELSE Raise(s, a, "Exception")

\* the loader returns and the constructor runs to its end
LoaderReturns(s) ==
    /\ stores[s].pc = "loading"
    /\ IF stores[s].kind = "hdf5"
       THEN HDF5Finish(s)
       ELSE /\ NPFinish(s, stores[s], stores[s].data, stores[s].call)
            /\ ev' = [Event("loader_return", s, "", stores[s].call) EXCEPT
                        !.wrote = ev.wrote]
            /\ UNCHANGED dirs

\* LoaderRaises, had the constructor removed the file it was building
LoaderRaises_removesFile(s) ==
    /\ stores[s].pc = "loading"
    /\ stores' = [stores EXCEPT ![s] =
           [@ EXCEPT !.pc = "failed", !.data = NoData, !.call = NoCall]]
    /\ ev' = Event("loader_raise", s, "Exception", stores[s].call)
    /\ h5file' = IF stores[s].kind = "hdf5"
                 THEN [h5file EXCEPT ![stores[s].loc] = NoFile]
                 ELSE h5file
    /\ UNCHANGED <<dirs, npzfile, origin>>

\* LoaderRaises, had the constructor saved the arrays it was building
LoaderRaises_savesArchive(s) ==
    /\ stores[s].pc = "loading"
    /\ stores' = [stores EXCEPT ![s] =
           [@ EXCEPT !.pc = "failed", !.data = NoData, !.call = NoCall]]
    /\ ev' = Event("loader_raise", s, "Exception", stores[s].call)
    /\ npzfile' = IF stores[s].kind = "ndarray" /\ stores[s].call.args.cache
                  THEN [npzfile EXCEPT ![stores[s].loc] =
                           CacheFile(np_strings(stores[s].condition),
                                     stores[s].order, stores[s].resolution,
                                     stores[s].data)]
                  ELSE npzfile
    /\ UNCHANGED <<dirs, h5file, origin>>

\* the loader raises, and with it the constructor: handle.close() and
\* numpy.savez are not reached
LoaderRaises(s) ==
    /\ stores[s].pc = "loading"
    /\ stores' = [stores EXCEPT ![s] =
           [@ EXCEPT !.pc = "failed", !.data = NoData, !.call = NoCall]]
    /\ ev' = Event("loader_raise", s, "Exception", stores[s].call)
    /\ UNCHANGED <<dirs, h5file, npzfile, origin>>

\* HandleErrors, had the reopened file accepted writes
HandleErrors_writable(st, nrows) == {""}

\* The outcomes of an assignment through the handle, "" if it goes through.
\* The file reopened with mode 'r' refuses the write; h5py may return from
\* an assignment that selects no row before it reaches the file, so that
\* outcome is left open.
HandleErrors(st, nrows) ==
    IF st.kind = "hdf5" /\ ~st.wopen
    THEN IF nrows = 0 THEN {"OSError", ""} ELSE {"OSError"}
    ELSE {""}

\* the number of rows __setitem__ selects with this index
SetItemRows(data, resolution, key) ==
    Cardinality(SliceRows(Len(data[key.iv.chrom]), key.iv.start \div resolution,
                          key.iv.end \div resolution))

\* store[key] = value, by the loader (phase "loading") or by a consumer of
\* the constructed store (phase "ready")
SetItem(s, phase, op, key, value) ==
    LET st == stores[s]
        data == HandleData(st)
        keyerr == SetItemError(data, st.stranded, key)
        after == setitem(data, st.resolution, st.stranded, key, value)
    IN  /\ st.pc = phase
        /\ \E err \in IF keyerr # "" THEN {keyerr}
                      ELSE HandleErrors(st, SetItemRows(data, st.resolution, key)) :
           /\ ev' = [Event(op, s, err, st.call) EXCEPT
                       !.key = key, !.value = value,
                       !.wrote = IF err = ""
                                 THEN [set |-> TRUE, slot |-> s, key |-> key,
                                       value |-> value]
                                 ELSE ev.wrote]
           /\ IF err # "" THEN UNCHANGED <<stores, h5file>>
              ELSE IF st.kind = "hdf5"
              THEN /\ h5file' = [h5file EXCEPT ![st.loc].data = after]
                   /\ UNCHANGED stores
              ELSE /\ stores' = [stores EXCEPT ![s].data = after]
                   /\ UNCHANGED h5file
           /\ UNCHANGED <<dirs, npzfile, origin>>

\* store[key], by the loader or by a consumer
GetItemArray(s, phase, op, key) ==
    LET st == stores[s]
        data == HandleData(st)
        err == GetItemError(data, key)
    IN  /\ st.pc = phase
        /\ ev' = [Event(op, s, err, st.call) EXCEPT
                    !.key = key,
                    !.out = IF err = "" THEN getitem_array(data, st.resolution, key)
                            ELSE <<>>,
                    !.wrote = ev.wrote]
        /\ UNCHANGED <<dirs, h5file, npzfile, origin, stores>>

(***************************************************************************)
(* Spec: the life cycle of the stores.  One chromosome, one interval that  *)
(* covers it, and two sets of metadata arguments (and three invalid ones). *)
(***************************************************************************)
LifeChroms == [c \in {"chr1"} |-> LifeChromLen]

\* condition labels, order and resolution that the constructors accept
LifeMetadata ==
    {[conditions |-> CondNone, order |-> 1, resolution |-> 1],
     [conditions |-> CondList(<<Str("c1"), Str("c2")>>), order |-> MaxOrder,
      resolution |-> 2]}

\* order and resolution that they refuse
LifeBadMetadata ==
    {[conditions |-> CondNone, order |-> 0, resolution |-> 1],
     [conditions |-> CondNone, order |-> MaxOrder + 1, resolution |-> 1],
     [conditions |-> CondNone, order |-> 1, resolution |-> 0]}

Args(storage, m, cache, overwrite, loader) ==
    [storage |-> storage, chroms |-> LifeChroms, stranded |-> FALSE,
     conditions |-> m.conditions, datatags |-> DataTags,
     resolution |-> m.resolution, order |-> m.order,
     cache |-> cache, overwrite |-> overwrite, loader |-> loader]

\* Every call the constructors accept; the calls they refuse are made with
\* a loader and with overwrite, the flags under which a construction has the
\* most effects.
LifeArgs ==
    {Args("hdf5", m, TRUE, o, l) : m \in LifeMetadata, o \in BOOLEAN, l \in BOOLEAN}
    \cup {Args("ndarray", m, c, o, l) :
        m \in LifeMetadata, c \in BOOLEAN, o \in BOOLEAN, l \in BOOLEAN}
    \cup {Args("hdf5", m, FALSE, TRUE, TRUE) : m \in LifeMetadata}
    \cup {Args(st, m, TRUE, TRUE, TRUE) :
        st \in {"hdf5", "ndarray"}, m \in LifeBadMetadata}
    \cup {Args("memmap", m, TRUE, TRUE, TRUE) : m \in LifeMetadata}

\* Spec constructs into one variable of the caller
LifeSlots == {1}

LifeInterval == GenomicInterval("chr1", 0, LifeChromLen, "+")

\* an interval narrower than a cell of resolution 2
LifeNarrow == GenomicInterval("chr1", 0, 1, "+")

LifeSetKeys ==
    {Key("pair", iv, Index(TRUE, c)) : iv \in {LifeInterval, LifeNarrow}, c \in 0..1}

LifeGetKeys == {Key("interval", LifeInterval, Index(TRUE, 0))}

Values == 1..MaxValue

CreateGenomicArray ==
    /\ \E s \in LifeSlots, a \in LifeArgs : create_genomic_array(s, a)
    /\ UNCHANGED <<idxvars, nwrites>>

LoaderSetItem ==
    /\ \E s \in LifeSlots, key \in LifeSetKeys, value \in Values :
          SetItem(s, "loading", "loader_write", key, value)
    /\ UNCHANGED <<idxvars, nwrites>>

LoaderReturn ==
    /\ \E s \in LifeSlots : LoaderReturns(s)
    /\ UNCHANGED <<idxvars, nwrites>>

LoaderRaise ==
    /\ \E s \in LifeSlots : LoaderRaises(s)
    /\ UNCHANGED <<idxvars, nwrites>>

StoreSetItem ==
    /\ \E s \in LifeSlots, key \in LifeSetKeys, value \in Values :
          SetItem(s, "ready", "write", key, value)
    /\ UNCHANGED <<idxvars, nwrites>>

StoreGetItem ==
    /\ \E s \in LifeSlots, key \in LifeGetKeys : GetItemArray(s, "ready", "read", key)
    /\ UNCHANGED <<idxvars, nwrites>>

Init == InitIdx /\ InitStores /\ nwrites = 0

Next ==
    \/ CreateGenomicArray
    \/ LoaderSetItem
    \/ LoaderReturn
    \/ LoaderRaise
    \/ StoreSetItem
    \/ StoreGetItem

Spec == Init /\ [][Next]_vars

(***************************************************************************)
(* SpecRW: one store over two chromosomes, built through its loader, and   *)
(* at most RWMaxWrites writes to it, by the loader or by a consumer.       *)
(***************************************************************************)
RWChroms == [c \in Chroms |-> IF c = "chr1" THEN RWChromLen1 ELSE RWChromLen2]

RWArgs ==
    {[storage |-> st, chroms |-> RWChroms, stranded |-> sd,
      conditions |-> CondList(<<Str("c1"), Str("c2")>>), datatags |-> DataTags,
      resolution |-> r, order |-> 1,
      cache |-> (st = "hdf5"), overwrite |-> FALSE, loader |-> TRUE] :
        st \in {"hdf5", "ndarray"}, sd \in BOOLEAN, r \in 1..RWMaxRes}

\* The intervals inside a chromosome.  An empty interval selects nothing
\* wherever it starts, so one per chromosome is kept.
RWIntervals ==
    {GenomicInterval(c, b, e, sd) :
        c \in Chroms, b \in 0..RWChromLen1, e \in 0..RWChromLen1, sd \in Strands}

InsideChrom(iv) ==
    /\ iv.start < iv.end \/ (iv.start = 0 /\ iv.end = 0)
    /\ iv.end <= RWChroms[iv.chrom]

RWSetKeys ==
    {Key("pair", iv, Index(TRUE, c)) :
        iv \in {i \in RWIntervals : InsideChrom(i)}, c \in 0..2}

RWGetKeys ==
    {Key("interval", iv, Index(TRUE, 0)) :
        iv \in {i \in RWIntervals : InsideChrom(i)}}
    \cup {Key("pair", GenomicInterval("chr1", 0, RWChromLen1, "+"), Index(TRUE, c)) :
             c \in {0, 2}}

\* A read changes nothing but its own result, so every read is taken from
\* the state a construction, a write or the loader's return left.
IsRead(op) == op \in {"read", "loader_read"}

RWCreate ==
    /\ stores[1].pc = "none"
    /\ \E a \in RWArgs : create_genomic_array(1, a)
    /\ UNCHANGED <<idxvars, nwrites>>

RWLoaderSetItem ==
    /\ nwrites < RWMaxWrites
    /\ \E key \in RWSetKeys, value \in Values :
          SetItem(1, "loading", "loader_write", key, value)
    /\ nwrites' = nwrites + 1
    /\ UNCHANGED idxvars

RWLoaderGetItem ==
    /\ ~IsRead(ev.op)
    /\ \E key \in RWGetKeys : GetItemArray(1, "loading", "loader_read", key)
    /\ UNCHANGED <<idxvars, nwrites>>

RWLoaderReturn ==
    /\ LoaderReturns(1)
    /\ UNCHANGED <<idxvars, nwrites>>

RWSetItem ==
    /\ nwrites < RWMaxWrites
    /\ \E key \in RWSetKeys, value \in Values :
          SetItem(1, "ready", "write", key, value)
    /\ nwrites' = nwrites + 1
    /\ UNCHANGED idxvars

RWGetItem ==
    /\ ~IsRead(ev.op)
    /\ \E key \in RWGetKeys : GetItemArray(1, "ready", "read", key)
    /\ UNCHANGED <<idxvars, nwrites>>

NextRW ==
    \/ RWCreate
    \/ RWLoaderSetItem
    \/ RWLoaderGetItem
    \/ RWLoaderReturn
    \/ RWSetItem
    \/ RWGetItem

SpecRW == Init /\ [][NextRW]_vars

(***************************************************************************)
(* SpecTwo: two variables of the caller, so two store objects alive at a   *)
(* time, constructed with caching enabled under one tag list.              *)
(***************************************************************************)
TwoArgs ==
    {Args(st, [conditions |-> CondNone, order |-> 1, resolution |-> 1], TRUE, o, l) :
        st \in {"hdf5", "ndarray"}, o \in BOOLEAN, l \in BOOLEAN}

TwoSetKeys == {Key("pair", LifeInterval, Index(TRUE, 0))}

TwoCreate ==
    /\ \E s \in Slots, a \in TwoArgs : create_genomic_array(s, a)
    /\ UNCHANGED <<idxvars, nwrites>>

TwoLoaderSetItem ==
    /\ \E s \in Slots, key \in TwoSetKeys, value \in Values :
          SetItem(s, "loading", "loader_write", key, value)
    /\ UNCHANGED <<idxvars, nwrites>>

TwoLoaderReturn ==
    /\ \E s \in Slots : LoaderReturns(s)
    /\ UNCHANGED <<idxvars, nwrites>>

TwoLoaderRaise ==
    /\ \E s \in Slots : LoaderRaises(s)
    /\ UNCHANGED <<idxvars, nwrites>>

TwoSetItem ==
    /\ \E s \in Slots, key \in TwoSetKeys, value \in Values :
          SetItem(s, "ready", "write", key, value)
    /\ UNCHANGED <<idxvars, nwrites>>

TwoGetItem ==
    /\ ~IsRead(ev.op)
    /\ \E s \in Slots, key \in LifeGetKeys : GetItemArray(s, "ready", "read", key)
    /\ UNCHANGED <<idxvars, nwrites>>

NextTwo ==
    \/ TwoCreate
    \/ TwoLoaderSetItem
    \/ TwoLoaderReturn
    \/ TwoLoaderRaise
    \/ TwoSetItem
    \/ TwoGetItem

SpecTwo == Init /\ [][NextTwo]_vars

SpecIdx == Init /\ [][NextIdx]_vars

(***************************************************************************)
(* Claims about the indexer, checked under SpecIdx.                        *)
(***************************************************************************)
RECURSIVE SumTo(_, _)
\* f[1] + ... + f[n]
SumTo(f, n) == IF n <= 0 THEN 0 ELSE f[n] + SumTo(f, n - 1)

RegionLen(reg) == reg.end - reg.start

\* the specification's bin count n of a region of length L
SpecN(L, binsize, stepsize) ==
    IF stepsize <= binsize THEN (L - binsize + stepsize) \div stepsize
    ELSE L \div stepsize

\* the length the window arithmetic works on: L - binsize + stepsize for
\* sliding windows (stepsize <= binsize), L otherwise
WindowVal(L, binsize, stepsize) ==
    IF stepsize <= binsize THEN L - binsize + stepsize ELSE L

\* the rows (0-based) the k-th region contributed to the table: those the
\* loop appended in its k-th pass
RowsBefore(k) ==
    IndexerLen(LoopRegions(NewIndexer(gind.binsize, gind.stepsize, gind.flank),
                           SubSeq(regions, 1, k - 1), fixed_size_batches))
RegionRows(k) == RowsBefore(k)..(RowsBefore(k + 1) - 1)

\* the rows of the k-th region after its max(n, 0) full-size bins
AdditionalRows(k) ==
    {i \in RegionRows(k) :
        i - RowsBefore(k) >= Max0(SpecN(RegionLen(regions[k]), gind.binsize,
                                        gind.stepsize))}

\* the interval of row i (0-based), read off the table's columns
RowInterval(i) ==
    LET start == gind.offsets[i + 1] + gind.inregionidx[i + 1] * gind.stepsize
    IN  GenomicInterval(gind.chrs[i + 1], start - gind.flank,
                        start + gind.rel_end[i + 1] + gind.flank,
                        gind.strand[i + 1])

\* create_from_file has returned an indexer (which no later operation changes)
JustBuilt == gind.built /\ ires.op = "create"

\* C4 as stated: the indexer's length is the sum over the regions of n, plus
\* one per region with L mod stepsize > 0 when fixed_size_batches is false.
\* Stated here for region files whose regions are all at least binsize long
\* (n >= 1 for each of them); it fails for those already.
C4_LengthIsSumOfN ==
    (JustBuilt /\ \A k \in 1..Len(regions) : RegionLen(regions[k]) >= gind.binsize) =>
        IndexerLen(gind) =
            SumTo([k \in 1..Len(regions) |->
                     LET L == RegionLen(regions[k])
                     IN  SpecN(L, gind.binsize, gind.stepsize)
                         + (IF ~fixed_size_batches /\ L % gind.stepsize > 0
                            THEN 1 ELSE 0)],
                  Len(regions))

\* C4 amended: the indexer's length is the sum over the regions of max(n, 0),
\* plus one per region with val mod stepsize > 0 when fixed_size_batches is
\* false, where val = L - binsize + stepsize when stepsize <= binsize and
\* val = L otherwise.
C4_LengthIsSumOfBins ==
    JustBuilt =>
        IndexerLen(gind) =
            SumTo([k \in 1..Len(regions) |->
                     LET L == RegionLen(regions[k])
                     IN  Max0(SpecN(L, gind.binsize, gind.stepsize))
                         + (IF ~fixed_size_batches
                               /\ WindowVal(L, gind.binsize, gind.stepsize)
                                    % gind.stepsize > 0
                            THEN 1 ELSE 0)],
                  Len(regions))

\* two regions, variable-size batches: one region shorter than
\* binsize - stepsize, one with a remainder of val where L is a multiple of
\* the stepsize
C4_Witness ==
    /\ gind.built
    /\ ~fixed_size_batches
    /\ Len(regions) = 2
    /\ gind.stepsize < gind.binsize
    /\ RegionLen(regions[1]) < gind.binsize - gind.stepsize
    /\ RegionLen(regions[2]) % gind.stepsize = 0
    /\ WindowVal(RegionLen(regions[2]), gind.binsize, gind.stepsize)
          % gind.stepsize > 0
    /\ IndexerLen(gind) >= 2

\* C5 as stated: with fixed_size_batches false a region with
\* L mod stepsize > 0 gets exactly one additional trailing bin, with
\* inregion_index n and length L - n*stepsize, ending at the region's end when
\* flank = 0; a region with L mod stepsize = 0 gets none; with
\* fixed_size_batches true no region gets one.  Stated here for the regions
\* that are at least binsize long (n >= 1); it fails for those already.
C5_RemainderOfLength ==
    JustBuilt =>
        \A k \in {j \in 1..Len(regions) : RegionLen(regions[j]) >= gind.binsize} :
            LET L == RegionLen(regions[k])
                n == SpecN(L, gind.binsize, gind.stepsize)
            IN  IF ~fixed_size_batches /\ L % gind.stepsize > 0
                THEN /\ Cardinality(AdditionalRows(k)) = 1
                     /\ \A i \in AdditionalRows(k) :
                            /\ gind.inregionidx[i + 1] = n
                            /\ gind.rel_end[i + 1] = L - n * gind.stepsize
                            /\ gind.flank = 0 =>
                                  RowInterval(i).end = regions[k].end
                ELSE AdditionalRows(k) = {}

\* C5 amended: with fixed_size_batches false a region with
\* val mod stepsize > 0 (val = L - binsize + stepsize when
\* stepsize <= binsize, val = L otherwise) gets exactly one additional
\* trailing bin, with inregion_index n and length val - n*stepsize, which
\* with flank = 0 ends at the region's end when stepsize >= binsize; a region
\* with val mod stepsize = 0 gets none; with fixed_size_batches true no region
\* gets one.
C5_RemainderOfVal ==
    JustBuilt =>
        \A k \in 1..Len(regions) :
            LET L == RegionLen(regions[k])
                n == SpecN(L, gind.binsize, gind.stepsize)
                val == WindowVal(L, gind.binsize, gind.stepsize)
            IN  IF ~fixed_size_batches /\ val % gind.stepsize > 0
                THEN /\ Cardinality(AdditionalRows(k)) = 1
                     /\ \A i \in AdditionalRows(k) :
                            /\ gind.inregionidx[i + 1] = n
                            /\ gind.rel_end[i + 1] = val - n * gind.stepsize
                            /\ (gind.flank = 0 /\ gind.stepsize >= gind.binsize) =>
                                  RowInterval(i).end = regions[k].end
                ELSE AdditionalRows(k) = {}

\* sliding windows with a remainder bin after a full bin, and a second
\* region without one
C5_Witness ==
    /\ gind.built
    /\ ~fixed_size_batches
    /\ gind.flank = 0
    /\ gind.stepsize < gind.binsize
    /\ Len(regions) = 2
    /\ Cardinality(AdditionalRows(1)) = 1
    /\ Cardinality(RegionRows(1)) = 2
    /\ AdditionalRows(2) = {}
    /\ RegionRows(2) # {}

\* C6: with stepsize <= binsize and fixed_size_batches true, every interval
\* get(i) returns for 0 <= i < length() has length binsize + 2*flank.
C6_FixedIntervalLength ==
    ( /\ ires.op = "get"
      /\ ires.err = ""
      /\ ires.index.val \in 0..(IndexerLen(gind) - 1)
      /\ gind.stepsize <= gind.binsize
      /\ fixed_size_batches )
    => ires.iv.end - ires.iv.start = gind.binsize + 2 * gind.flank

\* get(i) answered for a later row of an indexer with a flank and
\* overlapping windows
C6_Witness ==
    /\ ires.op = "get"
    /\ ires.err = ""
    /\ ires.index.val \in 1..(IndexerLen(gind) - 1)
    /\ gind.stepsize < gind.binsize
    /\ fixed_size_batches
    /\ gind.flank > 0
    /\ Len(regions) = 2

\* C7: for every chromosome name c, the indices returned for include={c} and
\* those returned for exclude={c} partition 0..length()-1.
C7_IncludeExcludePartition ==
    \A c \in QueryChroms :
        LET all == 0..(IndexerLen(gind) - 1)
        IN  /\ (ires.op = "idx" /\ ires.include = {c} /\ ires.exclude = {}) =>
                  /\ ires.idxs \cup idx_by_chrom(gind, {}, {c}) = all
                  /\ ires.idxs \cap idx_by_chrom(gind, {}, {c}) = {}
            /\ (ires.op = "idx" /\ ires.include = {} /\ ires.exclude = {c}) =>
                  /\ idx_by_chrom(gind, {c}, {}) \cup ires.idxs = all
                  /\ idx_by_chrom(gind, {c}, {}) \cap ires.idxs = {}

\* the exclude={c} call on an indexer holding bins of c and of another
\* chromosome
C7_Witness ==
    /\ ires.op = "idx"
    /\ ires.include = {}
    /\ ires.exclude = {"chr1"}
    /\ ires.idxs # {}
    /\ ires.idxs # 0..(IndexerLen(gind) - 1)

\* C8 as stated: get(i) fails for every i that is not an integer with
\* 0 <= i < length(), every negative integer included, and for i in range
\* returns (chrom[i], offset[i] + inregion_index[i]*stepsize - flank,
\* offset[i] + inregion_index[i]*stepsize + rel_end[i] + flank, strand[i]).
C8_GetFailsOutside0ToLen ==
    ires.op = "get" =>
        IF ires.index.isint /\ ires.index.val \in 0..(IndexerLen(gind) - 1)
        THEN ires.err = "" /\ ires.iv = RowInterval(ires.index.val)
        ELSE ires.err # ""

\* C8 amended: get(i) fails for every i that is not an integer and for every
\* integer i >= length() or i < -length(); for 0 <= i < length() it returns
\* the interval of row i as stated, and for -length() <= i < 0 the interval of
\* row length() + i.
C8_GetFailsOutsideListRange ==
    ires.op = "get" =>
        IF ires.index.isint /\ ires.index.val \in 0..(IndexerLen(gind) - 1)
        THEN ires.err = "" /\ ires.iv = RowInterval(ires.index.val)
        ELSE IF ires.index.isint /\ ires.index.val < 0
                /\ ires.index.val >= -IndexerLen(gind)
        THEN ires.err = ""
             /\ ires.iv = RowInterval(IndexerLen(gind) + ires.index.val)
        ELSE ires.err # ""

\* get(-1) answered with the last row's interval, on an indexer with a flank
C8_Witness ==
    /\ ires.op = "get"
    /\ ires.index = Index(TRUE, -1)
    /\ ires.err = ""
    /\ IndexerLen(gind) >= 2
    /\ gind.flank > 0

(***************************************************************************)
(* Claims about the stores, checked under Spec and SpecRW.                 *)
(***************************************************************************)
\* a constructor call has returned a store with this step
Constructed ==
    /\ ev.op \in {"construct", "loader_return"}
    /\ ev.err = ""
    /\ stores[ev.slot].pc = "ready"

\* the returned store is an HDF5GenomicArray over a file that existed when
\* its constructor was called without overwrite
Reloaded ==
    /\ Constructed
    /\ ev.call.args.storage = "hdf5"
    /\ ev.call.exists
    /\ ~ev.call.args.overwrite

StoreMetadata(st) == <<st.condition, st.order, st.resolution>>

FileMetadata(file) == <<file.conditions, file.order, file.resolution>>

ArgsMetadata(a) == <<np_strings(InitCondition(a)), a.order, a.resolution>>

\* C1 as stated: reloading a persistent store from an existing cache without
\* overwrite, after any earlier successful construction at the same cache
\* location, yields the conditions, order and resolution of the store that
\* construction returned, and does not invoke the loader.
C1_ReloadYieldsOriginal ==
    (Reloaded /\ origin[stores[ev.slot].loc].set) =>
        /\ StoreMetadata(stores[ev.slot]) = FileMetadata(origin[stores[ev.slot].loc])
        /\ ev.call.loaderCalls = 0

\* C1 amended: reloading a persistent store from an existing cache without
\* overwrite never invokes the loader and yields the conditions, order and
\* resolution persisted in the file, whatever the constructor arguments are;
\* they are those of the store the last build at that location returned when
\* no later construction has begun to rewrite the file since.
C1_ReloadYieldsPersisted ==
    Reloaded =>
        LET st == stores[ev.slot]
        IN  /\ ev.call.loaderCalls = 0
            /\ ~ev.call.built
            /\ StoreMetadata(st) = FileMetadata(h5file[st.loc])
            /\ (origin[st.loc].set /\ origin[st.loc].current) =>
                   StoreMetadata(st) = FileMetadata(origin[st.loc])

\* a reload whose arguments name a loader and other metadata than the file's
C1_Witness ==
    /\ Reloaded
    /\ origin[stores[ev.slot].loc].set
    /\ origin[stores[ev.slot].loc].current
    /\ ev.call.args.loader
    /\ ArgsMetadata(ev.call.args) # StoreMetadata(stores[ev.slot])
    /\ StoreMetadata(stores[ev.slot]) = FileMetadata(origin[stores[ev.slot].loc])

\* what the constructors' conditions make of a call: does it build?
ExpectBuild(call) ==
    IF call.args.storage = "hdf5"
    THEN ~call.exists \/ call.args.overwrite
    ELSE ~call.args.cache \/ ~call.exists \/ call.args.overwrite

\* C2 as stated: in every store construction that is given a loader, whatever
\* the backend, the cache state and the flags, the loader is invoked exactly
\* once, and has returned before the store can be queried.
C2_LoaderOncePerConstruction ==
    (Constructed /\ ev.call.args.loader) =>
        /\ ev.call.loaderCalls = 1
        /\ ev.op = "loader_return"

\* C2 amended: a construction invokes the loader exactly once when it is
\* given one and builds (no cache file at the location, overwrite, or for
\* the in-memory backend caching disabled), and never otherwise (the cache
\* is reused, or no loader is given); the invocation has returned before the
\* constructor returns the store, so before a consumer can query it.
C2_LoaderOncePerBuild ==
    /\ (ev.op = "construct" /\ ev.err = "") =>
          /\ ev.call.built = ExpectBuild(ev.call)
          /\ ev.call.loaderCalls =
                (IF ev.call.args.loader /\ ExpectBuild(ev.call) THEN 1 ELSE 0)
          /\ stores[ev.slot].pc =
                (IF ev.call.loaderCalls = 1 THEN "loading" ELSE "ready")
    /\ (ev.op = "construct" /\ ev.err # "") => ev.call.loaderCalls = 0
    /\ ev.op \in {"loader_return", "loader_raise", "loader_write", "loader_read"} =>
          /\ ev.call.loaderCalls = 1
          /\ ev.call.args.loader /\ ExpectBuild(ev.call)
    /\ ev.op = "loader_return" => stores[ev.slot].pc = "ready"
    /\ ev.op = "loader_raise" => stores[ev.slot].pc = "failed"
    /\ ev.op \in {"read", "write"} =>
          stores[ev.slot].pc = "ready" /\ stores[ev.slot].call = NoCall

\* a rebuild over an existing cache whose loader has written and returned
C2_Witness ==
    /\ ev.op = "loader_return"
    /\ stores[ev.slot].pc = "ready"
    /\ ev.call.loaderCalls = 1
    /\ ev.call.exists
    /\ ev.call.args.overwrite
    /\ ev.wrote.set

\* the read, by the loader or a consumer, of the interval of the last write
\* that returned, whose condition index is in [0, len(conditions))
ReadAfterWrite ==
    /\ IsRead(ev.op)
    /\ ev.err = ""
    /\ ev.wrote.set
    /\ ev.key.iv = ev.wrote.key.iv
    /\ ev.wrote.key.cond.val \in 0..(Len(stores[ev.slot].condition) - 1)

\* what was read at the strand and the condition of the write, row by row
ReadColumn ==
    LET axis == StrandAxis(stores[ev.slot].stranded, ev.key.iv.strand)
    IN  [k \in 1..Len(ev.out) |-> ev.out[k][axis + 1][ev.wrote.key.cond.val + 1]]

\* C3 as stated: a value written at an interval inside a chromosome and a
\* condition, and then read at the same interval and condition, comes back
\* for every cell of the interval, also when the interval is narrower than
\* the resolution: the read of a non-empty interval returns at least one
\* cell and every cell it returns holds the value.
C3_ReadReturnsValue ==
    (ReadAfterWrite /\ ev.key.iv.start < ev.key.iv.end) =>
        /\ Len(ev.out) >= 1
        /\ \A k \in 1..Len(ev.out) : ReadColumn[k] = ev.wrote.value

\* C3 amended: the read returns the cells [start div r, end div r) of the
\* chromosome, and each of them holds the written value at the strand and
\* condition of the write; an interval with start div r = end div r (one that
\* lies inside a single cell) selects no cell, so its write stores nothing
\* and its read returns nothing.
C3_ReadReturnsWrittenCells ==
    ReadAfterWrite =>
        LET r == stores[ev.slot].resolution
        IN  /\ Len(ev.out) = Max0((ev.key.iv.end \div r) - (ev.key.iv.start \div r))
            /\ \A k \in 1..Len(ev.out) : ReadColumn[k] = ev.wrote.value

\* an interval narrower than the resolution that straddles two cells: the
\* value comes back in one cell
C3_Witness ==
    /\ ReadAfterWrite
    /\ ev.key.iv.end - ev.key.iv.start < stores[ev.slot].resolution
    /\ Len(ev.out) = 1
    /\ ev.wrote.value # 0
    /\ ReadColumn[1] = ev.wrote.value

\* C9: the write handle and the read-only handle of an HDF5GenomicArray are
\* never open at the same time: the read-only handle is open only on a store
\* whose constructor has returned, and the write handle only on one whose
\* constructor is inside the loader or was left by the loader's exception;
\* a store whose loader failed never gets a read-only handle.
C9_HandlesNeverBothOpen ==
    \A s \in Slots :
        /\ ~(stores[s].wopen /\ stores[s].ropen)
        /\ stores[s].ropen => (stores[s].pc = "ready" /\ stores[s].kind = "hdf5")
        /\ stores[s].wopen => (stores[s].pc \in {"loading", "failed"}
                               /\ stores[s].kind = "hdf5")
        /\ (stores[s].kind = "hdf5" /\ stores[s].pc = "ready") => stores[s].ropen
        /\ (stores[s].kind = "hdf5" /\ stores[s].pc = "loading") => stores[s].wopen

\* a build whose loader has returned: the store reads through the read-only
\* handle and the write handle is closed
C9_Witness ==
    /\ ev.op = "loader_return"
    /\ stores[ev.slot].kind = "hdf5"
    /\ ev.call.built
    /\ stores[ev.slot].ropen
    /\ ~stores[ev.slot].wopen

\* the store of the slot is a sealed HDF5GenomicArray
Sealed(s) == stores[s].kind = "hdf5" /\ stores[s].pc = "ready"

\* C10 as stated: every write attempt to a sealed persistent store fails.
C10_EverySealedWriteFails ==
    (ev.op = "write" /\ Sealed(ev.slot)) => ev.err # ""

\* C10 amended: a write to a sealed persistent store changes no stored value;
\* it fails whenever it selects at least one cell (one that selects none may
\* return without an error); and the file of a sealed store changes only by a
\* construction with overwrite, which starts from arrays of zeros and then
\* takes the writes of its loader.
C10_SealedValuesUnchanged ==
    [][\A s \in Slots : Sealed(s) =>
          /\ (ev'.op = "write" /\ ev'.slot = s) =>
                /\ h5file' = h5file
                /\ ev'.err = "" =>
                      /\ SetItemError(h5file[stores[s].loc].data,
                                      stores[s].stranded, ev'.key) = ""
                      /\ (ev'.key.iv.end \div stores[s].resolution)
                            <= (ev'.key.iv.start \div stores[s].resolution)
          /\ h5file'[stores[s].loc] # h5file[stores[s].loc] =>
                /\ ev'.call.built
                /\ ev'.call.args.overwrite
                /\ ev'.call.args.storage = "hdf5"
                /\ \/ /\ ev'.op = "construct"
                      /\ h5file'[stores[s].loc].data =
                            ZeroData(ev'.call.args.chroms, ev'.call.args.stranded,
                                     Len(InitCondition(ev'.call.args)))
                   \/ /\ ev'.op = "loader_write"
                      /\ ev'.slot # s]_vars

\* a refused write to a sealed store whose file holds what its loader wrote
C10_Witness ==
    /\ ev.op = "write"
    /\ Sealed(ev.slot)
    /\ ev.err = "OSError"
    /\ ev.value # 0
    /\ \E c \in DOMAIN h5file[stores[ev.slot].loc].data :
          \E p \in DOMAIN h5file[stores[ev.slot].loc].data[c] :
             h5file[stores[ev.slot].loc].data[c][p][1][1] # 0
    /\ h5file[stores[ev.slot].loc].data[ev.key.iv.chrom][1][1][ev.key.cond.val + 1] = 0

\* the step is a constructor call of an NPGenomicArray, or belongs to one
\* (its loader writes, returns or raises)
NPCall(call) == call.args.storage = "ndarray"

\* C11: for an NPGenomicArray with caching enabled, a construction that finds
\* no archive for its tags builds: it invokes the loader (when given one) and,
\* once the loader has returned, writes the arrays with conditions, order and
\* resolution into the archive; a later construction with the same tags,
\* caching enabled and no overwrite does not invoke the loader, leaves the
\* archive as it is and yields the arrays, conditions, order and resolution
\* the archive holds; the archive changes only when a build with caching
\* enabled completes.
C11_CachedArchiveReused ==
    [][/\ \A l \in Locations : npzfile'[l] # npzfile[l] =>
             /\ ev'.op \in {"construct", "loader_return"}
             /\ NPCall(ev'.call) /\ ev'.call.built /\ ev'.call.args.cache
             /\ Location(ev'.call.args.datatags, ev'.call.args.stranded) = l
             /\ stores'[ev'.slot].pc = "ready"
             /\ npzfile'[l].exists
             /\ npzfile'[l].data = stores'[ev'.slot].data
             /\ FileMetadata(npzfile'[l]) = ArgsMetadata(ev'.call.args)
       /\ (ev'.op = "construct" /\ ev'.err = "" /\ NPCall(ev'.call)
           /\ ev'.call.args.cache) =>
             LET a == ev'.call.args
                 l == Location(a.datatags, a.stranded)
             IN  IF npzfile[l].exists /\ ~a.overwrite
                 THEN /\ ev'.call.loaderCalls = 0
                      /\ ~ev'.call.built
                      /\ npzfile' = npzfile
                      /\ stores'[ev'.slot].pc = "ready"
                      /\ stores'[ev'.slot].data = npzfile[l].data
                      /\ StoreMetadata(stores'[ev'.slot]) = FileMetadata(npzfile[l])
                 ELSE /\ ev'.call.built
                      /\ ev'.call.loaderCalls = (IF a.loader THEN 1 ELSE 0)
                      /\ a.loader => (npzfile' = npzfile
                                      /\ stores'[ev'.slot].pc = "loading")
                      /\ ~a.loader => npzfile'[l].exists
       /\ (ev'.op = "loader_return" /\ NPCall(ev'.call) /\ ev'.call.args.cache) =>
             LET a == ev'.call.args
                 l == Location(a.datatags, a.stranded)
             IN  /\ npzfile'[l].exists
                 /\ npzfile'[l].data = stores[ev'.slot].data
                 /\ stores'[ev'.slot].data = stores[ev'.slot].data]_vars

\* a store taken from the archive: the call names a loader and other
\* metadata than the archive's, and the arrays hold what the loader of the
\* build wrote
C11_Witness ==
    /\ Constructed
    /\ ev.op = "construct"
    /\ NPCall(ev.call)
    /\ ev.call.args.cache /\ ev.call.exists /\ ~ev.call.args.overwrite
    /\ ev.call.args.loader
    /\ ArgsMetadata(ev.call.args) # StoreMetadata(stores[ev.slot])
    /\ stores[ev.slot].data = npzfile[stores[ev.slot].loc].data
    /\ \E c \in DOMAIN stores[ev.slot].data :
          \E p \in DOMAIN stores[ev.slot].data[c] :
             stores[ev.slot].data[c][p][1][1] # 0

\* C12: for an NPGenomicArray with caching disabled, every construction
\* builds, whether or not an archive exists for its tags: it invokes the
\* loader (when given one) and returns the arrays the loader wrote with the
\* conditions, order and resolution of the call; no step of such a
\* construction creates or changes a cache directory or a cache file.
C12_UncachedAlwaysRebuilds ==
    [][(NPCall(ev'.call) /\ ~ev'.call.args.cache
        /\ ev'.op \in {"construct", "loader_write", "loader_read",
                       "loader_return", "loader_raise"}) =>
          /\ dirs' = dirs /\ npzfile' = npzfile /\ h5file' = h5file
          /\ (ev'.op = "construct" /\ ev'.err = "") =>
                /\ ev'.call.built
                /\ ev'.call.loaderCalls = (IF ev'.call.args.loader THEN 1 ELSE 0)
                /\ stores'[ev'.slot].pc =
                      (IF ev'.call.args.loader THEN "loading" ELSE "ready")
                /\ stores'[ev'.slot].data =
                      ZeroData(ev'.call.args.chroms, ev'.call.args.stranded,
                               Len(InitCondition(ev'.call.args)))
          /\ ev'.op = "loader_return" =>
                /\ stores'[ev'.slot].data = stores[ev'.slot].data
                /\ StoreMetadata(stores'[ev'.slot]) = ArgsMetadata(ev'.call.args)]_vars

\* an uncached build over an existing archive: the store holds what its own
\* loader wrote, not the archive's arrays
C12_Witness ==
    /\ ev.op = "loader_return"
    /\ NPCall(ev.call)
    /\ ~ev.call.args.cache
    /\ ev.call.exists
    /\ ev.call.loaderCalls = 1
    /\ npzfile[stores[ev.slot].loc].exists
    /\ stores[ev.slot].data # npzfile[stores[ev.slot].loc].data
    /\ StoreMetadata(stores[ev.slot]) # FileMetadata(npzfile[stores[ev.slot].loc])

\* every cell of every array is zero
AllZero(data) ==
    \A c \in DOMAIN data : \A p \in DOMAIN data[c] :
        \A st \in DOMAIN data[c][p] : \A k \in DOMAIN data[c][p][st] :
            data[c][p][st][k] = 0

\* the arrays behind the handle of the store of slot s after the step
HandleDataNext(s) ==
    IF stores'[s].kind = "hdf5" THEN h5file'[stores'[s].loc].data
    ELSE stores'[s].data

\* the cache file of a store
CacheOf(st) == IF st.kind = "hdf5" THEN h5file[st.loc] ELSE npzfile[st.loc]

\* a construction over an existing cache with overwrite
Overwrites(call) == call.exists /\ call.args.overwrite

\* C13 as stated: after a construction with overwrite over an existing cache
\* has returned, the store and the cache hold the values of this build.
C13_CacheHoldsThisBuild ==
    (Constructed /\ Overwrites(ev.call)) =>
        /\ ev.call.built
        /\ CacheOf(stores[ev.slot]).data = HandleData(stores[ev.slot])

\* C13 amended: a construction with overwrite over an existing cache builds:
\* its arrays start as zeros, it invokes the loader (when given one), from
\* then on to its return the arrays change only by the writes of that
\* loader, the returned store holds those arrays, and so does the cache
\* when caching is enabled; with caching disabled (in-memory backend) the
\* archive keeps the earlier values.
C13_OverwriteRebuildsFromZeros ==
    [][/\ (ev'.op = "construct" /\ ev'.err = "" /\ Overwrites(ev'.call)) =>
             /\ ev'.call.built
             /\ ev'.call.loaderCalls = (IF ev'.call.args.loader THEN 1 ELSE 0)
             /\ stores'[ev'.slot].pc =
                   (IF ev'.call.args.loader THEN "loading" ELSE "ready")
             /\ DOMAIN HandleDataNext(ev'.slot) = DOMAIN ev'.call.args.chroms
             /\ AllZero(HandleDataNext(ev'.slot))
       /\ \A s \in Slots :
             (stores[s].pc = "loading" /\ Overwrites(stores[s].call)) =>
                /\ stores'[s].pc \in {"loading", "ready", "failed"}
                /\ (stores'[s].pc # "failed"
                    /\ HandleDataNext(s) # HandleData(stores[s])) =>
                      (ev'.op = "loader_write" /\ ev'.slot = s /\ ev'.err = "")
                /\ (stores'[s].pc = "ready" /\ stores[s].call.args.cache) =>
                      LET cache == IF stores[s].kind = "hdf5"
                                   THEN h5file'[stores[s].loc]
                                   ELSE npzfile'[stores[s].loc]
                      IN  cache.exists /\ cache.data = HandleDataNext(s)
                /\ (stores[s].kind = "ndarray" /\ ~stores[s].call.args.cache) =>
                      npzfile' = npzfile]_vars

\* a rebuild with caching enabled has returned: the loader wrote one
\* condition and the other is zero, in the store and in the cache
C13_Witness ==
    /\ ev.op = "loader_return"
    /\ Overwrites(ev.call)
    /\ ev.call.args.cache
    /\ ev.wrote.set
    /\ CacheOf(stores[ev.slot]).data = HandleData(stores[ev.slot])
    /\ \E c \in DOMAIN HandleData(stores[ev.slot]) :
          LET arr == HandleData(stores[ev.slot])[c]
          IN  Len(arr[1][1]) = 2 /\ arr[1][1][1] # arr[1][1][2]

\* the step changes nothing on disk and no store object
NoSideEffect == dirs' = dirs /\ h5file' = h5file /\ npzfile' = npzfile /\ stores' = stores

\* C14: create_genomic_array with a storage that is neither 'hdf5' nor
\* 'ndarray' raises and constructs nothing: no store object is made or
\* changed, no cache directory or file is created or changed, and the loader
\* is not invoked.
C14_UnknownStorageConstructsNothing ==
    [][(ev'.op = "construct" /\ ev'.call.args.storage \notin {"hdf5", "ndarray"}) =>
          /\ ev'.err = "Exception"
          /\ ev'.call.loaderCalls = 0
          /\ ~ev'.call.built
          /\ NoSideEffect]_vars

\* the refused call asked for a loader and for overwrite where a cache and a
\* store exist: they are as they were
C14_Witness ==
    /\ ev.op = "construct"
    /\ ev.call.args.storage = "memmap"
    /\ ev.err = "Exception"
    /\ ev.call.args.loader /\ ev.call.args.overwrite
    /\ stores[ev.slot].pc = "ready"
    /\ \E l \in Locations : h5file[l].exists /\ npzfile[l].exists
    /\ dirs # {}

\* the arguments the constructors must refuse
BadArgs(a) ==
    \/ a.order < 1 \/ a.order > 4
    \/ a.resolution <= 0
    \/ a.storage = "hdf5" /\ ~a.cache

\* C18: a construction with order outside [1,4] or resolution <= 0, or of an
\* HDF5GenomicArray with caching disabled, raises before any side effect: no
\* cache directory or file is created or changed, no store object is made
\* or changed, the loader is not invoked; hence every store a constructor
\* has returned or handed to its loader has resolution > 0 and
\* 1 <= order <= 4.
C18_BadArgsFailBeforeSideEffects ==
    [][/\ (ev'.op = "construct" /\ ev'.call.args.storage \in {"hdf5", "ndarray"}
           /\ BadArgs(ev'.call.args)) =>
             /\ ev'.err # ""
             /\ ev'.call.loaderCalls = 0
             /\ ~ev'.call.built
             /\ NoSideEffect
       /\ \A s \in Slots : stores'[s].pc \in {"ready", "loading"} =>
             /\ stores'[s].resolution > 0
             /\ 1 <= stores'[s].order /\ stores'[s].order <= 4]_vars

\* a refused call (not for caching disabled) that asked for a loader and for
\* overwrite where a cache and a store exist
C18_Witness ==
    /\ ev.op = "construct"
    /\ ev.call.args.storage = "hdf5"
    /\ ev.call.args.cache
    /\ BadArgs(ev.call.args)
    /\ ev.err # ""
    /\ ev.call.args.loader /\ ev.call.args.overwrite
    /\ stores[ev.slot].pc = "ready"
    /\ h5file[Location(ev.call.args.datatags, ev.call.args.stranded)].exists

\* the file at the location is what a build left whose loader failed, or
\* that has not completed
Incomplete(l) == h5file[l].exists /\ ~origin[l].current

\* C15: when the loader of a building HDF5GenomicArray raises, the file it
\* has written so far stays at the cache location, and a later construction
\* at that location without overwrite takes it as it is: it succeeds, does
\* not build, does not invoke the loader, leaves the file unchanged and
\* returns a store over it with the conditions, order and resolution in it.
C15_FailedBuildIsReused ==
    [][/\ (ev'.op = "loader_raise" /\ ev'.call.args.storage = "hdf5") =>
             LET l == stores[ev'.slot].loc
             IN  /\ h5file' = h5file /\ dirs' = dirs
                 /\ h5file'[l].exists
                 /\ h5file'[l].exists /\ ~origin'[l].current
                 /\ stores'[ev'.slot].pc = "failed"
       /\ (ev'.op = "construct" /\ ev'.call.args.storage = "hdf5"
           /\ ~BadArgs(ev'.call.args) /\ ~ev'.call.args.overwrite
           /\ Incomplete(Location(ev'.call.args.datatags, ev'.call.args.stranded))
           /\ ev'.err = "") =>
             LET l == Location(ev'.call.args.datatags, ev'.call.args.stranded)
             IN  /\ ev'.call.exists /\ ~ev'.call.built
                 /\ ev'.call.loaderCalls = 0
                 /\ h5file' = h5file
                 /\ h5file'[l].exists /\ ~origin'[l].current
                 /\ stores'[ev'.slot].pc = "ready"
                 /\ HandleDataNext(ev'.slot) = h5file[l].data
                 /\ StoreMetadata(stores'[ev'.slot]) = FileMetadata(h5file[l])]_vars

\* a store over the file of a failed build: the call named a loader, the
\* file holds what the failed loader had written
C15_Witness ==
    /\ Reloaded
    /\ Incomplete(stores[ev.slot].loc)
    /\ ev.call.args.loader
    /\ ev.call.loaderCalls = 0
    /\ ~AllZero(HandleData(stores[ev.slot]))

\* C16: the arrays behind a store belong to that store alone: a write to one
\* store, by its loader or by a consumer, never changes what another store
\* whose constructor has returned reads.
C16_WriteStaysInItsStore ==
    [][\A s \in Slots, t \in Slots :
          (s # t /\ ev'.op \in {"write", "loader_write"} /\ ev'.slot = s
           /\ stores[t].pc = "ready") =>
             HandleDataNext(t) = HandleData(stores[t])]_vars

\* C20: in every indexer built from non-empty regions with binsize > 0 and
\* stepsize > 0, also from regions shorter than binsize, every row's
\* inregion_index is non-negative, the rows of a region carry the ordinals
\* 0, 1, 2, ... in order, and with flank = 0 no bin starts before the start
\* of its region.
C20_OrdinalsFromZero ==
    (JustBuilt /\ \A k \in 1..Len(regions) : RegionLen(regions[k]) >= 1) =>
        \A k \in 1..Len(regions) : \A i \in RegionRows(k) :
            /\ gind.inregionidx[i + 1] >= 0
            /\ gind.inregionidx[i + 1] = i - RowsBefore(k)
            /\ gind.flank = 0 => RowInterval(i).start >= regions[k].start

\* the cell (p, a, k), all 1-based, of chromosome c that a write with this
\* key to a store with this resolution and strandedness is to change
WriteSelects(st, key, c, p, a, k) ==
    /\ c = key.iv.chrom
    /\ (key.iv.start \div st.resolution) <= p - 1
    /\ p - 1 < (key.iv.end \div st.resolution)
    /\ a - 1 = (IF st.stranded /\ key.iv.strand = "-" THEN 1 ELSE 0)
    /\ k - 1 = key.cond.val

\* C19: a write with an interval and a condition, by the loader or by a
\* consumer, changes only cells of the interval's chromosome with position in
\* [start div resolution, end div resolution), on strand axis 1 when the
\* store is stranded and the strand is '-' and on axis 0 otherwise, for the
\* given condition, and sets them to the value; every other cell keeps its
\* value, a write that fails changes no cell, and a write through a writable
\* handle with a condition in [0, len(conditions)) does not fail.
C19_WriteChangesOnlyItsCells ==
    [][ev'.op \in {"write", "loader_write"} =>
          LET st == stores[ev'.slot]
              before == HandleData(st)
              after == HandleDataNext(ev'.slot)
          IN  /\ DOMAIN after = DOMAIN before
              /\ \A c \in DOMAIN before :
                    /\ Len(after[c]) = Len(before[c])
                    /\ \A p \in DOMAIN before[c] : \A a \in DOMAIN before[c][p] :
                          \A k \in DOMAIN before[c][p][a] :
                             after[c][p][a][k] =
                                IF ev'.err = "" /\ WriteSelects(st, ev'.key, c, p, a, k)
                                THEN ev'.value
                                ELSE before[c][p][a][k]
              /\ ((st.kind = "ndarray" \/ ev'.op = "loader_write")
                  /\ ev'.key.cond.val \in 0..(Len(st.condition) - 1))
                    => ev'.err = ""]_vars

\* a second write, to the '-' strand and the second condition of one cell of
\* a stranded store, has left the value an earlier write had given to the
\* '+' strand and first condition of that cell, and every neighbour at zero
C19_Witness ==
    /\ ev.op \in {"write", "loader_write"}
    /\ ev.err = ""
    /\ nwrites = 2
    /\ stores[ev.slot].stranded
    /\ stores[ev.slot].resolution = 1
    /\ ev.key = Key("pair", GenomicInterval("chr1", 1, 2, "-"), Index(TRUE, 1))
    /\ ev.value = 1
    /\ LET arr == HandleData(stores[ev.slot])["chr1"]
       IN  /\ arr[2] = <<<<1, 0>>, <<0, 1>>>>
           /\ arr[1] = <<<<0, 0>>, <<0, 0>>>>
           /\ arr[3] = <<<<0, 0>>, <<0, 0>>>>
           /\ AllZero([c \in {"chr2"} |-> HandleData(stores[ev.slot])["chr2"]])

\* a read whose index is a pair of an interval and a condition that is an
\* integer in [0, len(conditions))
ReadWithCondition ==
    /\ IsRead(ev.op)
    /\ ev.key.form = "pair"
    /\ ev.key.cond.isint
    /\ ev.key.cond.val \in 0..(Len(stores[ev.slot].condition) - 1)

\* C17 as stated: a read with an interval and a condition index in
\* [0, len(conditions)) does not fail, and returns the cells
\* [start div resolution, end div resolution) of the chromosome on the
\* selected strand axis for that one condition: one number per cell.
C17_ReadSelectsStrandAndCondition ==
    ReadWithCondition =>
        LET st == stores[ev.slot]
            arr == HandleData(st)[ev.key.iv.chrom]
            lo == ev.key.iv.start \div st.resolution
            axis == IF st.stranded /\ ev.key.iv.strand = "-" THEN 1 ELSE 0
        IN  /\ ev.err = ""
            /\ Len(ev.out) = Max0((ev.key.iv.end \div st.resolution) - lo)
            /\ \A i \in 1..Len(ev.out) :
                  ev.out[i] = arr[lo + i][axis + 1][ev.key.cond.val + 1]

\* C17 amended: a read takes an interval alone.  With an interval of a
\* configured chromosome it does not fail and returns the rows
\* [start div resolution, end div resolution) of the chromosome, each with
\* the cells of every strand axis and every condition, whatever the strand
\* of the interval; with a pair of an interval and a condition it fails with
\* IndexError whatever the condition, and returns nothing.
C17_ReadReturnsWholeRows ==
    IsRead(ev.op) =>
        LET st == stores[ev.slot]
            data == HandleData(st)
            lo == ev.key.iv.start \div st.resolution
        IN  IF ev.key.form = "pair"
            THEN ev.err = "IndexError" /\ ev.out = <<>>
            ELSE ev.key.iv.chrom \in DOMAIN data =>
                    /\ ev.err = ""
                    /\ Len(ev.out) = Max0((ev.key.iv.end \div st.resolution) - lo)
                    /\ \A i \in 1..Len(ev.out) :
                          ev.out[i] = data[ev.key.iv.chrom][lo + i]

\* a read of one cell of a stranded store with two conditions, with a '+'
\* interval, has returned the values of both strands and both conditions
C17_Witness ==
    /\ IsRead(ev.op)
    /\ ev.key.form = "interval"
    /\ ev.key.iv.strand = "+"
    /\ ev.err = ""
    /\ stores[ev.slot].stranded
    /\ Len(ev.out) = 1
    /\ ev.out[1] = <<<<1, 0>>, <<0, 1>>>>

\* the loader of the first caching build of an NPGenomicArray at its
\* location has just raised: no archive was there when the constructor was
\* called
FirstNPBuildFailed ==
    /\ ev.op = "loader_raise"
    /\ NPCall(ev.call)
    /\ ev.call.args.cache
    /\ ~ev.call.exists

\* C21: when the loader raises during the first build of an NPGenomicArray
\* with caching enabled, no archive is at the tag-derived location afterwards
\* (numpy.savez is not reached); the next construction with the same tags,
\* caching and no overwrite finds no archive, builds again from zero arrays
\* and invokes the loader when one is supplied, so nothing of the failed
\* build is reused.
C21_FailedBuildLeavesNoArchive ==
    [][/\ (ev'.op = "loader_raise" /\ NPCall(ev'.call) /\ ev'.call.args.cache) =>
             /\ npzfile' = npzfile
             /\ ~ev'.call.exists => ~npzfile'[stores[ev'.slot].loc].exists
             /\ stores'[ev'.slot].pc = "failed"
       /\ (FirstNPBuildFailed /\ ev'.op = "construct" /\ NPCall(ev'.call)
           /\ ev'.call.args.cache /\ ~ev'.call.args.overwrite
           /\ ~BadArgs(ev'.call.args)
           /\ Location(ev'.call.args.datatags, ev'.call.args.stranded)
                 = Location(ev.call.args.datatags, ev.call.args.stranded)) =>
             /\ ev'.err = ""
             /\ ~ev'.call.exists
             /\ ev'.call.built
             /\ ev'.call.loaderCalls = (IF ev'.call.args.loader THEN 1 ELSE 0)
             /\ stores'[ev'.slot].pc =
                   (IF ev'.call.args.loader THEN "loading" ELSE "ready")
             /\ AllZero(stores'[ev'.slot].data)]_vars

\* the loader of a first caching build has raised: the directory of the
\* location was made, no archive is in it, and the constructor has returned
\* no store
C21_Witness ==
    /\ FirstNPBuildFailed
    /\ stores[ev.slot].pc = "failed"
    /\ Location(ev.call.args.datatags, ev.call.args.stranded) \in dirs
    /\ ~npzfile[Location(ev.call.args.datatags, ev.call.args.stranded)].exists
    /\ ~ev.call.args.overwrite

====
